---- MODULE Spec2Model ----
(***************************************************************************)
(* Model of the tunnel inserter: the IPv4/UDP packet codec (src/udp.rs),   *)
(* the poll-driven forwarding loop (src/forward.rs) and the blocking entry *)
(* point TunnelInserter::run (src/lib.rs).                                 *)
(*                                                                         *)
(* Byte buffers are sequences of integers 0..255.  Rust indexes from 0,    *)
(* TLA+ sequences from 1: packet[k] in the source is packet[k + 1] here.   *)
(***************************************************************************)
EXTENDS Integers, Sequences, FiniteSets, TLC

(***************************************************************************)
(* Program constants                                                       *)
(***************************************************************************)
IPV4_HEADER_LEN == 20

UDP_HEADER_LEN == 8

\* capacity of the scratch buffer `buf` of forward
BUF_LEN == 4096

(***************************************************************************)
(* Bounds of the model                                                     *)
(***************************************************************************)
\* datagrams and hang-ups the environment injects in one run of the engine
MaxArrivals == 2

\* longest payload of the enumerated short payloads of the codec runs
MaxPayloadLen == 2

(***************************************************************************)
(* Fixed-width helpers                                                     *)
(***************************************************************************)
Min(a, b) == IF a < b THEN a ELSE b

\* u16::to_be_bytes
to_be_bytes(x) == << (x \div 256) % 256, x % 256 >>

\* u16::from_be_bytes
from_be_bytes(hi, lo) == hi * 256 + lo

\* faulty variant: the value is cut to 12 bits
as_u16_TwelveBits(x) == x % 4096

\* `x as u16`
as_u16(x) == x % 65536

\* &data[from..to] with 0-based, half-open bounds
Slice(data, from, to) == SubSeq(data, from + 1, to)

\* a buffer of n copies of byte b
Fill(n, b) == [i \in 1..n |-> b]

(***************************************************************************)
(* udp.rs: checksum                                                        *)
(***************************************************************************)
\* the first loop and the odd trailing byte: the u32 sum of the big-endian words.
\* A buffer of at most 65535 bytes sums to less than 32768 * 65535 < 2^31, so
\* the u32 accumulator cannot wrap on any datagram and no modulus is taken.
RECURSIVE SumWords(_, _, _)
SumWords(data, i, sum) ==
    IF i + 1 <= Len(data)
    THEN SumWords(data, i + 2, sum + from_be_bytes(data[i], data[i + 1]))
    ELSE IF i <= Len(data)
         THEN sum + data[i] * 256
         ELSE sum

\* while (sum >> 16) != 0 { sum = (sum & 0xFFFF) + (sum >> 16) }
RECURSIVE Fold(_)
Fold(sum) ==
    IF sum \div 65536 # 0
    THEN Fold((sum % 65536) + (sum \div 65536))
    ELSE sum

\* !(sum as u16)
checksum(data) == 65535 - as_u16(Fold(SumWords(data, 1, 0)))

(***************************************************************************)
(* udp.rs: create_ipv4_udp_packet                                          *)
(***************************************************************************)
\* the 20 header bytes as they stand when the checksum is computed (field zero)
HeaderBeforeChecksum(total_length, src_ip, dst_ip) ==
    << 69, 0 >> \o to_be_bytes(as_u16(total_length))
      \o to_be_bytes(0) \o to_be_bytes(16384)
      \o << 64, 17 >> \o << 0, 0 >>
      \o src_ip \o dst_ip

\* faulty variant: the UDP length field holds the payload length without the header
create_ipv4_udp_packet_NoUdpHeaderLen(payload, src_ip, dst_ip, src_port, dst_port) ==
    LET udp_length   == UDP_HEADER_LEN + Len(payload)
        total_length == IPV4_HEADER_LEN + udp_length
        hdr          == HeaderBeforeChecksum(total_length, src_ip, dst_ip)
        ip_checksum  == checksum(Slice(hdr, 0, IPV4_HEADER_LEN))
    IN  Slice(hdr, 0, 10) \o to_be_bytes(ip_checksum) \o Slice(hdr, 12, 20)
          \o to_be_bytes(src_port) \o to_be_bytes(dst_port)
          \o to_be_bytes(as_u16(Len(payload))) \o << 0, 0 >>
          \o payload

create_ipv4_udp_packet(payload, src_ip, dst_ip, src_port, dst_port) ==
    LET udp_length   == UDP_HEADER_LEN + Len(payload)
        total_length == IPV4_HEADER_LEN + udp_length
        hdr          == HeaderBeforeChecksum(total_length, src_ip, dst_ip)
        ip_checksum  == checksum(Slice(hdr, 0, IPV4_HEADER_LEN))
    IN  Slice(hdr, 0, 10) \o to_be_bytes(ip_checksum) \o Slice(hdr, 12, 20)
          \o to_be_bytes(src_port) \o to_be_bytes(dst_port)
          \o to_be_bytes(as_u16(udp_length)) \o << 0, 0 >>
          \o payload

(***************************************************************************)
(* udp.rs: parse_ipv4_udp_packet                                           *)
(*                                                                         *)
(* The result is None, Some(..) or a panic: an index or a slice bound      *)
(* beyond the buffer makes the Rust code panic.                            *)
(***************************************************************************)
None == [tag |-> "None"]

Panicked == [tag |-> "Panic"]

Some(src_ip, dst_ip, src_port, dst_port, payload) ==
    [tag |-> "Some", src_ip |-> src_ip, dst_ip |-> dst_ip,
     src_port |-> src_port, dst_port |-> dst_port, payload |-> payload]

\* the declared header length: (packet[0] & 0x0F) * 4
Ihl(packet) == (packet[1] % 16) * 4

\* faulty variant: a non-zero UDP checksum is not verified
UdpChecksumOk_Unverified(packet, udp_offset, udp_length, src_ip, dst_ip) == TRUE

\* the UDP checksum test of lines 136-158, reached with all reads in range
UdpChecksumOk(packet, udp_offset, udp_length, src_ip, dst_ip) ==
    LET udp_checksum  == from_be_bytes(packet[udp_offset + 7], packet[udp_offset + 8])
        pseudo_header == src_ip \o dst_ip \o << 0, 17 >>
                           \o to_be_bytes(as_u16(udp_length))
                           \o Slice(packet, udp_offset, udp_offset + udp_length)
    IN  udp_checksum = 0 \/ checksum(pseudo_header) = 0

\* faulty variant: the total-length field is not compared with the buffer
TotalLengthOk_Any(packet) == TRUE

\* the total-length test of lines 99-103
TotalLengthOk(packet) == from_be_bytes(packet[3], packet[4]) = Len(packet)

\* faulty variant: the protocol byte is not looked at
ProtocolOk_Any(packet) == TRUE

\* the protocol test of lines 105-109
ProtocolOk(packet) == packet[10] = 17

parse_ipv4_udp_packet(packet) ==
    IF Len(packet) < IPV4_HEADER_LEN + UDP_HEADER_LEN THEN None
    ELSE LET ihl == Ihl(packet) IN
    IF ihl < IPV4_HEADER_LEN THEN None
    ELSE IF ~TotalLengthOk(packet) THEN None
    ELSE IF ~ProtocolOk(packet) THEN None
    ELSE LET src_ip == Slice(packet, 12, 16)
             dst_ip == Slice(packet, 16, 20) IN
    \* checksum(&packet[..ihl]): the slice panics when ihl > packet.len()
    IF ihl > Len(packet) THEN Panicked
    ELSE IF checksum(Slice(packet, 0, ihl)) # 0 THEN None
    ELSE LET udp_offset == ihl IN
    \* packet[udp_offset] .. packet[udp_offset + 5] are read before any length test
    IF udp_offset + 5 >= Len(packet) THEN Panicked
    ELSE LET src_port   == from_be_bytes(packet[udp_offset + 1], packet[udp_offset + 2])
             dst_port   == from_be_bytes(packet[udp_offset + 3], packet[udp_offset + 4])
             udp_length == from_be_bytes(packet[udp_offset + 5], packet[udp_offset + 6]) IN
    IF udp_length < UDP_HEADER_LEN \/ udp_offset + udp_length > Len(packet) THEN None
    ELSE IF ~UdpChecksumOk(packet, udp_offset, udp_length, src_ip, dst_ip) THEN None
    ELSE Some(src_ip, dst_ip, src_port, dst_port,
              Slice(packet, udp_offset + UDP_HEADER_LEN, udp_offset + udp_length))

(***************************************************************************)
(* forward.rs: PortPair and the inverted index                             *)
(***************************************************************************)
PortPair(local, remote) == [local |-> local, remote |-> remote]

\* faulty variant: the index stored for a pair counts from 1
Pp2Idx_OneBased(pairs) ==
    [pp \in {pairs[i] : i \in 1..Len(pairs)} |->
        CHOOSE k \in 1..Len(pairs) :
            /\ pairs[k] = pp
            /\ \A m \in 1..Len(pairs) : pairs[m] = pp => m <= k]

\* faulty variant: of two identical pairs the earlier channel keeps the entry
Pp2Idx_FirstWins(pairs) ==
    [pp \in {pairs[i] : i \in 1..Len(pairs)} |->
        CHOOSE k \in 0..(Len(pairs) - 1) :
            /\ pairs[k + 1] = pp
            /\ \A m \in 0..(Len(pairs) - 1) : pairs[m + 1] = pp => m >= k]

\* the HashMap collected from (pair, j): a later j replaces an earlier one
Pp2Idx(pairs) ==
    [pp \in {pairs[i] : i \in 1..Len(pairs)} |->
        CHOOSE k \in 0..(Len(pairs) - 1) :
            /\ pairs[k + 1] = pp
            /\ \A m \in 0..(Len(pairs) - 1) : pairs[m + 1] = pp => m <= k]

\* local_ports.drain(..).zip(remote_ports.drain(..)) collected into port pairs
ZipPorts(ls, rs) == [i \in 1..Min(Len(ls), Len(rs)) |-> PortPair(ls[i], rs[i])]

(***************************************************************************)
(* The inputs of the model                                                 *)
(***************************************************************************)
Addr1 == << 10, 0, 0, 1 >>

Addr2 == << 10, 0, 0, 2 >>

Addr3 == << 10, 0, 0, 3 >>

\* b"ping"
Ping == << 112, 105, 110, 103 >>

\* TunnelInserterConfig values: distinct pairs, colliding pairs, unequal lists
Configs ==
    { [local_addr |-> Addr1, remote_addr |-> Addr2,
       local_ports |-> << 9000, 9002 >>, remote_ports |-> << 9001, 9003 >>],
      [local_addr |-> Addr1, remote_addr |-> Addr2,
       local_ports |-> << 9000, 9000 >>, remote_ports |-> << 9001, 9001 >>],
      [local_addr |-> Addr1, remote_addr |-> Addr2,
       local_ports |-> << 9000 >>, remote_ports |-> << 9001, 9003 >>] }

\* datagrams the consumer writes to local channel i (0-based): channel 0 also
\* gets one that is a byte longer than the scratch buffer, the others an empty one
LocalDatagrams(i) ==
    IF i = 0 THEN { Ping, Fill(BUF_LEN + 1, 7) } ELSE { << >>, Ping }

\* packet with the byte at 0-based offset k replaced
SetByte(packet, k, b) == [packet EXCEPT ![k + 1] = b]

\* packet with the header checksum field recomputed over its first ihl bytes
Rechecksum(packet, ihl) ==
    LET z  == SetByte(SetByte(packet, 10, 0), 11, 0)
        ck == checksum(Slice(z, 0, ihl))
    IN  SetByte(SetByte(z, 10, ck \div 256), 11, ck % 256)

\* a packet with a 24-byte header (IHL 6, four option bytes) and a valid checksum
WithOptions(payload, src_ip, dst_ip, src_port, dst_port) ==
    LET total == 24 + UDP_HEADER_LEN + Len(payload)
        hdr   == << 70, 0 >> \o to_be_bytes(total) \o << 0, 0, 64, 0, 64, 17, 0, 0 >>
                   \o src_ip \o dst_ip \o << 1, 1, 1, 0 >>
        udp   == to_be_bytes(src_port) \o to_be_bytes(dst_port)
                   \o to_be_bytes(UDP_HEADER_LEN + Len(payload)) \o << 0, 0 >>
    IN  Rechecksum(hdr \o udp \o payload, 24)

\* buffers that arrive on the outside channel, for configuration c with pairs pps
OutsideDatagrams(c, pps) ==
    LET la   == c.local_addr
        ra   == c.remote_addr
        good == create_ipv4_udp_packet(Ping, ra, la, pps[1].remote, pps[1].local)
    IN  \* well formed, for every channel
        { create_ipv4_udp_packet(Ping, ra, la, pps[i].remote, pps[i].local) :
              i \in 1..Len(pps) }
        \cup { WithOptions(Ping, ra, la, pps[1].remote, pps[1].local) }
        \* well formed, wrong source / destination address, unknown ports
        \cup { create_ipv4_udp_packet(Ping, Addr3, la, pps[1].remote, pps[1].local),
               create_ipv4_udp_packet(Ping, ra, Addr3, pps[1].remote, pps[1].local),
               create_ipv4_udp_packet(Ping, ra, la, pps[1].local, pps[1].remote) }
        \* malformed: bad header checksum
        \cup { SetByte(good, 10, (good[11] + 1) % 256) }
        \* header-length nibble 15: a declared header of 60 bytes in a 32-byte buffer
        \cup { SetByte(good, 0, 79) }

(***************************************************************************)
(* State                                                                   *)
(***************************************************************************)
VARIABLES
    cfg,           \* the TunnelInserterConfig handed to run
    pc,            \* where run is: "start", "poll", "scan", "join", "returned", "panicked"
    state,         \* the engine: "NotStarted", "Running", "Terminated", "Aborted"
    ret,           \* what run returned: "none", "Ok", "Err"
    panic,         \* the panic message that unwound run, or "none"
    port_pairs,    \* run's port_pairs, one per local channel
    pp2idx,        \* forward's inverted index
    revents,       \* what the last poll reported for fd 0 .. n + 1
    j,             \* the index of the for loop over poll_fds
    buf,           \* the scratch buffer: the bytes written so far (the rest is 0)
    lsocks_in,     \* per local channel: datagrams waiting to be received
    outside_in,    \* datagrams waiting on the outside channel
    pipe,          \* the control pipe's peer: "open", "written", "closed"
    hup,           \* data channels (0 .. n) whose peer has hung up
    handle,        \* the consumer thread: "none", "running", "joined"
    cyc,           \* the receives, sends and diagnostics of the cycle under way
    arrivals,      \* datagrams and hang-ups injected so far
    polls_after_signal, \* polls that returned after the control peer wrote or closed:
                   \* 0, 1, or 2 for more than one
    c_pc,          \* codec run: "idle", "input", "encoded", "decoded"
    c_args,        \* codec run: the encoder's arguments
    c_pkt,         \* codec run: the buffer
    c_res          \* codec run: the decoder's result

engine_vars == << cfg, pc, state, ret, panic, port_pairs, pp2idx, revents, j, buf,
                  lsocks_in, outside_in, pipe, hup,
                  handle, cyc, arrivals, polls_after_signal >>

codec_vars == << c_pc, c_args, c_pkt, c_res >>

vars == << cfg, pc, state, ret, panic, port_pairs, pp2idx, revents, j, buf,
           lsocks_in, outside_in, pipe, hup,
           handle, cyc, arrivals, polls_after_signal, c_pc, c_args, c_pkt, c_res >>

\* n of forward: the number of local channels
n == Len(port_pairs)

\* the state before run is called with configuration c
EngineIdle(c) ==
    /\ cfg = c
    /\ pc = "start"
    /\ state = "NotStarted"
    /\ ret = "none"
    /\ panic = "none"
    /\ port_pairs = << >>
    /\ pp2idx = << >>
    /\ revents = << >>
    /\ j = 0
    /\ buf = << >>
    /\ lsocks_in = << >>
    /\ outside_in = << >>
    /\ pipe = "open"
    /\ hup = {}
    /\ handle = "none"
    /\ cyc = << >>
    /\ arrivals = 0
    /\ polls_after_signal = 0

CodecIdle ==
    /\ c_pc = "idle"
    /\ c_args = << >>
    /\ c_pkt = << >>
    /\ c_res = None

Init == (\E c \in Configs : EngineIdle(c)) /\ CodecIdle

(***************************************************************************)
(* lib.rs: TunnelInserter::run up to the call of forward                   *)
(***************************************************************************)
\* run returns Err when the two port lists differ in length (lines 113-115)
RunLengthMismatch ==
    /\ pc = "start"
    /\ Len(cfg.local_ports) # Len(cfg.remote_ports)
    /\ pc' = "returned"
    /\ ret' = "Err"
    /\ UNCHANGED << cfg, state, panic, port_pairs, pp2idx, revents, j, buf, lsocks_in,
                    outside_in, pipe, hup, handle, cyc,
                    arrivals, polls_after_signal >>
    /\ UNCHANGED codec_vars

\* run builds the pairs and the socket pairs, spawns the consumer and calls
\* forward, whose assertion holds and which builds pp2idx and the zeroed buffer
RunStart ==
    /\ pc = "start"
    /\ Len(cfg.local_ports) = Len(cfg.remote_ports)
    /\ port_pairs' = ZipPorts(cfg.local_ports, cfg.remote_ports)
    /\ lsocks_in' = [i \in 1..Len(cfg.local_ports) |-> << >>]
    /\ handle' = "running"
    /\ pp2idx' = Pp2Idx(port_pairs')
    /\ buf' = << >>
    /\ state' = "Running"
    /\ pc' = "poll"
    /\ UNCHANGED << cfg, ret, panic, revents, j, outside_in, pipe, hup,
                    cyc, arrivals, polls_after_signal >>
    /\ UNCHANGED codec_vars

(***************************************************************************)
(* forward.rs: the poll loop                                               *)
(***************************************************************************)
\* what poll reports for fd i: 0 .. n-1 local, n outside, n+1 the control pipe
Revents(i) ==
    IF i < n
    THEN (IF lsocks_in[i + 1] # << >> THEN {"POLLIN"} ELSE {})
           \cup (IF i \in hup THEN {"POLLHUP"} ELSE {})
    ELSE IF i = n
    THEN (IF outside_in # << >> THEN {"POLLIN"} ELSE {})
           \cup (IF i \in hup THEN {"POLLHUP"} ELSE {})
    ELSE IF pipe = "written" THEN {"POLLIN"}
    ELSE IF pipe = "closed" THEN {"POLLHUP"}
    ELSE {}

\* rev.intersects(PollFlags::POLLIN | PollFlags::POLLHUP)
Intersects(rev, flags) == rev \cap flags # {}

\* events of the log cyc: a receive on fd ch took datagram `data` off the queue
\* and returned sz; a send of `data` on fd ch had result res; a diagnostic
EvRecv(ch, data, sz) ==
    [op |-> "recv", ch |-> ch, data |-> data, sz |-> sz, res |-> "Ok"]

EvSend(ch, data, res) ==
    [op |-> "send", ch |-> ch, data |-> data, sz |-> Len(data), res |-> res]

EvLog(ch, msg) == [op |-> "log", ch |-> ch, data |-> << >>, sz |-> 0, res |-> msg]

\* results of a non-blocking send
SendResults == {"Ok", "WouldBlock", "Err"}

\* the diagnostic printed for a send result
SendLog(ch, res) ==
    IF res = "WouldBlock" THEN << EvLog(ch, "drop") >>
    ELSE IF res = "Err" THEN << EvLog(ch, "send failed") >>
    ELSE << >>

\* faulty variant: the for loop stays at a local channel until its queue is empty
Advance_Drain ==
    IF j < n /\ "POLLIN" \in revents[j] /\ Len(lsocks_in[j + 1]) > 1
    THEN pc' = "scan" /\ j' = j
    ELSE IF j = n + 1
    THEN pc' = "poll" /\ j' = 0
    ELSE pc' = "scan" /\ j' = j + 1

\* the for loop moves to the next fd; after the last one the loop polls again
\* (the last fd is the control pipe: only ScanSkip gets past it, and it clears
\* the record of the finished cycle)
Advance ==
    IF j = n + 1
    THEN pc' = "poll" /\ j' = 0
    ELSE pc' = "scan" /\ j' = j + 1

\* faulty variant: the datagram is peeked at and stays queued
Dequeue_Peek(queue) == queue

\* recv takes the datagram at the head of the socket's queue off the queue
Dequeue(queue) == Tail(queue)

\* recv(&mut buf): the first sz bytes of buf are overwritten, the rest is kept
RecvInto(b, dgram) ==
    LET sz == Min(Len(dgram), BUF_LEN)
    IN  Slice(dgram, 0, sz) \o Slice(b, sz, Len(b))

\* faulty variant: the pair's remote port is the source port and its local port the
\* destination port
Frame_SwappedPorts(jj, data) ==
    create_ipv4_udp_packet(data, cfg.local_addr, cfg.remote_addr,
                           port_pairs[jj + 1].remote, port_pairs[jj + 1].local)

\* the packet built for a datagram read from local socket jj (lines 86-92)
Frame(jj, data) ==
    create_ipv4_udp_packet(data, cfg.local_addr, cfg.remote_addr,
                           port_pairs[jj + 1].local, port_pairs[jj + 1].remote)

\* faulty variant: the destination address is not checked
AddressCheck_SourceOnly(got) ==
    IF got.src_ip # cfg.remote_addr THEN "Source IP mismatch" ELSE "none"

\* the address checks of lines 109-116: the diagnostic, or "none"
AddressCheck(got) ==
    IF got.src_ip # cfg.remote_addr THEN "Source IP mismatch"
    ELSE IF got.dst_ip # cfg.local_addr THEN "Destination IP mismatch"
    ELSE "none"

\* faulty variant: the packet's source port is taken for the local port
RouteKey_Swapped(got) == PortPair(got.src_port, got.dst_port)

\* the key looked up in pp2idx (lines 117-120)
RouteKey(got) == PortPair(got.dst_port, got.src_port)

\* faulty variant: a key that is not in the index goes to channel 0
Route_DefaultChannel(key) == IF key \in DOMAIN pp2idx THEN {pp2idx[key]} ELSE {0}

\* pp2idx.get(key): the index as a set of one element, or the empty set for None
Route(key) == IF key \in DOMAIN pp2idx THEN {pp2idx[key]} ELSE {}

\* a panic unwinds out of forward and run
Abort(msg) ==
    /\ panic' = msg
    /\ state' = "Aborted"
    /\ pc' = "panicked"

\* faulty variant: the control pipe is looked at before the data channels: when it is
\* ready the scan begins (and ends) at the control fd
Poll_ControlFirst ==
    /\ pc = "poll"
    /\ \E i \in 0..(n + 1) : Revents(i) # {}
    /\ revents' = [i \in 0..(n + 1) |-> Revents(i)]
    /\ pc' = "scan"
    /\ j' = IF Revents(n + 1) # {} THEN n + 1 ELSE 0
    /\ polls_after_signal' = IF pipe # "open" /\ polls_after_signal < 2
                             THEN polls_after_signal + 1
                             ELSE polls_after_signal
    /\ UNCHANGED << cfg, state, ret, panic, port_pairs, pp2idx, buf, lsocks_in,
                    outside_in, pipe, hup, handle, cyc,
                    arrivals >>
    /\ UNCHANGED codec_vars

\* poll(..) returns with at least one fd reporting an event (line 63)
Poll ==
    /\ pc = "poll"
    /\ \E i \in 0..(n + 1) : Revents(i) # {}
    /\ revents' = [i \in 0..(n + 1) |-> Revents(i)]
    /\ pc' = "scan"
    /\ j' = 0
    /\ polls_after_signal' = IF pipe # "open" /\ polls_after_signal < 2
                             THEN polls_after_signal + 1
                             ELSE polls_after_signal
    /\ UNCHANGED << cfg, state, ret, panic, port_pairs, pp2idx, buf, lsocks_in,
                    outside_in, pipe, hup, handle, cyc,
                    arrivals >>
    /\ UNCHANGED codec_vars

\* faulty variant: a failure of poll is handed back as run's Err value
PollFail_ReturnsErr ==
    /\ pc = "poll"
    /\ state' = "Aborted"
    /\ ret' = "Err"
    /\ pc' = "returned"
    /\ UNCHANGED << cfg, panic, port_pairs, pp2idx, revents, j, buf, lsocks_in,
                    outside_in, pipe, hup, handle, cyc,
                    arrivals, polls_after_signal >>
    /\ UNCHANGED codec_vars

\* poll(..) fails: expect("poll failed") panics (line 63)
PollFail ==
    /\ pc = "poll"
    /\ Abort("poll failed")
    /\ UNCHANGED << cfg, ret, port_pairs, pp2idx, revents, j, buf, lsocks_in,
                    outside_in, pipe, hup, handle, cyc,
                    arrivals, polls_after_signal >>
    /\ UNCHANGED codec_vars

\* faulty variant: a hang-up of a data channel's peer ends the loop as the
\* control channel does
ScanSkip_HangUpReturns ==
    /\ pc = "scan"
    /\ \/ /\ ~Intersects(revents[j], {"POLLIN", "POLLHUP"})
          /\ Advance
          /\ revents' = IF j = n + 1 THEN << >> ELSE revents
          /\ cyc' = IF j = n + 1 THEN << >> ELSE cyc
          /\ UNCHANGED state
       \/ /\ Intersects(revents[j], {"POLLIN", "POLLHUP"})
          /\ j # n + 1
          /\ ~Intersects(revents[j], {"POLLIN"})
          /\ state' = "Terminated"
          /\ pc' = "join"
          /\ UNCHANGED << revents, cyc, j >>
    /\ UNCHANGED << cfg, ret, panic, port_pairs, pp2idx, buf, lsocks_in,
                    outside_in, pipe, hup, handle, arrivals,
                    polls_after_signal >>
    /\ UNCHANGED codec_vars

\* faulty variant: a data channel without input is read all the same, and the
\* non-blocking recv fails on its empty queue
ScanSkip_TryRecv ==
    /\ pc = "scan"
    /\ \/ /\ j = n + 1
          /\ ~Intersects(revents[j], {"POLLIN", "POLLHUP"})
          /\ Advance
          /\ revents' = << >>
          /\ cyc' = << >>
          /\ UNCHANGED << state, panic >>
       \/ /\ j # n + 1
          /\ ~Intersects(revents[j], {"POLLIN"})
          /\ Abort("recv failed")
          /\ UNCHANGED << revents, cyc, j >>
    /\ UNCHANGED << cfg, ret, port_pairs, pp2idx, buf, lsocks_in,
                    outside_in, pipe, hup, handle, arrivals,
                    polls_after_signal >>
    /\ UNCHANGED codec_vars

\* the two `continue`s of lines 66-68 and 78-80: nothing to read on this fd
ScanSkip ==
    /\ pc = "scan"
    /\ \/ ~Intersects(revents[j], {"POLLIN", "POLLHUP"})
       \/ /\ Intersects(revents[j], {"POLLIN", "POLLHUP"})
          /\ j # n + 1
          /\ ~Intersects(revents[j], {"POLLIN"})
    /\ Advance
    /\ revents' = IF j = n + 1 THEN << >> ELSE revents
    /\ cyc' = IF j = n + 1 THEN << >> ELSE cyc
    /\ UNCHANGED << cfg, state, ret, panic, port_pairs, pp2idx, buf, lsocks_in,
                    outside_in, pipe, hup, handle, arrivals,
                    polls_after_signal >>
    /\ UNCHANGED codec_vars

\* faulty variant: a plain `break` leaves the for loop only, and the loop polls again
ScanControl_BreakInner ==
    /\ pc = "scan"
    /\ Intersects(revents[j], {"POLLIN", "POLLHUP"})
    /\ j = n + 1
    /\ pc' = "poll"
    /\ j' = 0
    /\ revents' = << >>
    /\ cyc' = << >>
    /\ UNCHANGED << cfg, state, ret, panic, port_pairs, pp2idx, buf, lsocks_in,
                    outside_in, pipe, hup, handle, arrivals, polls_after_signal >>
    /\ UNCHANGED codec_vars

\* the control pipe is readable or hung up: break 'm (lines 70-74); forward
\* returns and run goes on to join the consumer
ScanControl ==
    /\ pc = "scan"
    /\ Intersects(revents[j], {"POLLIN", "POLLHUP"})
    /\ j = n + 1
    /\ state' = "Terminated"
    /\ pc' = "join"
    /\ UNCHANGED << cfg, ret, panic, port_pairs, pp2idx, revents, j, buf, lsocks_in,
                    outside_in, pipe, hup, handle, cyc,
                    arrivals, polls_after_signal >>
    /\ UNCHANGED codec_vars

\* j < n: one datagram from local socket j is framed and sent outside
\* (lines 82-102)
ScanLocal ==
    /\ pc = "scan"
    /\ j < n
    /\ Intersects(revents[j], {"POLLIN"})
    /\ \/ \* recv fails: expect("recv failed") panics
          /\ Abort("recv failed")
          /\ UNCHANGED << j, buf, lsocks_in, cyc >>
       \/ \E res \in SendResults :
            LET dgram == Head(lsocks_in[j + 1])
                sz    == Min(Len(dgram), BUF_LEN)
                nbuf  == RecvInto(buf, dgram)
                pkt   == Frame(j, Slice(nbuf, 0, sz))
            IN  /\ lsocks_in' = [lsocks_in EXCEPT ![j + 1] = Dequeue(@)]
                /\ buf' = nbuf
                /\ cyc' = cyc \o << EvRecv(j, dgram, sz), EvSend(n, pkt, res) >>
                            \o SendLog(n, res)
                /\ Advance
                /\ UNCHANGED << state, panic >>
    /\ UNCHANGED << cfg, ret, port_pairs, pp2idx, revents, outside_in,
                    pipe, hup, handle, arrivals, polls_after_signal >>
    /\ UNCHANGED codec_vars

\* j == n: one datagram from the outside socket is parsed, checked and routed
\* (lines 103-137)
ScanOutside ==
    /\ pc = "scan"
    /\ j = n
    /\ Intersects(revents[j], {"POLLIN"})
    /\ \/ \* recv fails: expect("recv failed") panics
          /\ Abort("recv failed")
          /\ UNCHANGED << j, buf, outside_in, cyc >>
       \/ LET dgram == Head(outside_in)
              sz    == Min(Len(dgram), BUF_LEN)
              nbuf  == RecvInto(buf, dgram)
              got   == parse_ipv4_udp_packet(Slice(nbuf, 0, sz))
              rcv   == EvRecv(n, dgram, sz)
              key   == RouteKey(got)
          IN  /\ outside_in' = Dequeue(outside_in)
              /\ buf' = nbuf
              /\ \/ /\ got.tag = "Panic"
                    /\ Abort("index out of range")
                    /\ cyc' = cyc \o << rcv >>
                    /\ UNCHANGED j
                 \/ /\ got.tag = "None"
                    /\ cyc' = cyc \o << rcv, EvLog(n, "Invalid packet received on outside") >>
                    /\ Advance
                    /\ UNCHANGED << state, panic >>
                 \/ /\ got.tag = "Some"
                    /\ AddressCheck(got) # "none"
                    /\ cyc' = cyc \o << rcv, EvLog(n, AddressCheck(got)) >>
                    /\ Advance
                    /\ UNCHANGED << state, panic >>
                 \/ /\ got.tag = "Some"
                    /\ AddressCheck(got) = "none"
                    /\ Route(key) = {}
                    /\ cyc' = cyc \o << rcv, EvLog(n, "No matching port pair found") >>
                    /\ Advance
                    /\ UNCHANGED << state, panic >>
                 \/ /\ got.tag = "Some"
                    /\ AddressCheck(got) = "none"
                    /\ \E idx \in Route(key) : \E res \in SendResults :
                         (   cyc' = cyc \o << rcv, EvSend(idx, got.payload, res) >>
                                       \o SendLog(idx, res) )
                    /\ Advance
                    /\ UNCHANGED << state, panic >>
    /\ UNCHANGED << cfg, ret, port_pairs, pp2idx, revents, lsocks_in,
                    pipe, hup, handle, arrivals, polls_after_signal >>
    /\ UNCHANGED codec_vars

(***************************************************************************)
(* lib.rs: run after forward has returned                                  *)
(***************************************************************************)
\* handle.join() waits for the consumer thread to end, which is up to
\* axl_tunnel_app: then Ok(()), or expect("AxlRust thread panicked") panics
\* (lines 190-193)
Join ==
    /\ pc = "join"
    /\ handle = "running"
    /\ handle' = "joined"
    /\ \/ /\ ret' = "Ok"
          /\ pc' = "returned"
          /\ UNCHANGED panic
       \/ /\ panic' = "AxlRust thread panicked"
          /\ pc' = "panicked"
          /\ UNCHANGED ret
    /\ UNCHANGED << cfg, state, port_pairs, pp2idx, revents, j, buf, lsocks_in,
                    outside_in, pipe, hup, cyc, arrivals, polls_after_signal >>
    /\ UNCHANGED codec_vars

(***************************************************************************)
(* The environment: the consumer, the outside peer, the control peer       *)
(*                                                                         *)
(* The engine looks at its channels only through the readiness snapshot    *)
(* that poll returns and through the head of a queue, so an arrival, a     *)
(* hang-up or a close that happens while a cycle is under way has the      *)
(* effect of the same event happening when the engine is next parked in    *)
(* poll.  The environment therefore acts while the engine is in poll.      *)
(***************************************************************************)
\* the engine is parked in poll
Parked == state = "Running" /\ pc = "poll"

\* the consumer writes a datagram to the peer of local socket i
LocalArrive ==
    /\ Parked
    /\ handle = "running"
    /\ arrivals < MaxArrivals
    /\ \E i \in 0..(n - 1) : \E d \in LocalDatagrams(i) :
         lsocks_in' = [lsocks_in EXCEPT ![i + 1] = Append(@, d)]
    /\ arrivals' = arrivals + 1
    /\ UNCHANGED << cfg, pc, state, ret, panic, port_pairs, pp2idx, revents, j, buf,
                    outside_in, pipe, hup, handle, cyc,
                    polls_after_signal >>
    /\ UNCHANGED codec_vars

\* the outside peer writes a buffer to the outside socket
OutsideArrive ==
    /\ Parked
    /\ arrivals < MaxArrivals
    /\ \E d \in OutsideDatagrams(cfg, port_pairs) : outside_in' = Append(outside_in, d)
    /\ arrivals' = arrivals + 1
    /\ UNCHANGED << cfg, pc, state, ret, panic, port_pairs, pp2idx, revents, j, buf,
                    lsocks_in, pipe, hup, handle, cyc,
                    polls_after_signal >>
    /\ UNCHANGED codec_vars

\* the peer of a data channel goes away: poll reports POLLHUP for it
PeerHangUp ==
    /\ Parked
    /\ arrivals < MaxArrivals
    /\ \E i \in 0..n : i \notin hup /\ hup' = hup \cup {i}
    /\ arrivals' = arrivals + 1
    /\ UNCHANGED << cfg, pc, state, ret, panic, port_pairs, pp2idx, revents, j, buf,
                    lsocks_in, outside_in, pipe, handle, cyc, polls_after_signal >>
    /\ UNCHANGED codec_vars

\* the control peer writes to the pipe
ControlWrite ==
    /\ Parked
    /\ pipe = "open"
    /\ pipe' = "written"
    /\ UNCHANGED << cfg, pc, state, ret, panic, port_pairs, pp2idx, revents, j, buf,
                    lsocks_in, outside_in, hup, handle, cyc,
                    arrivals, polls_after_signal >>
    /\ UNCHANGED codec_vars

\* the control peer closes its end of the pipe
ControlClose ==
    /\ Parked
    /\ pipe = "open"
    /\ pipe' = "closed"
    /\ UNCHANGED << cfg, pc, state, ret, panic, port_pairs, pp2idx, revents, j, buf,
                    lsocks_in, outside_in, hup, handle, cyc,
                    arrivals, polls_after_signal >>
    /\ UNCHANGED codec_vars

Next ==
    \/ RunLengthMismatch
    \/ RunStart
    \/ Poll
    \/ PollFail
    \/ ScanSkip
    \/ ScanControl
    \/ ScanLocal
    \/ ScanOutside
    \/ Join
    \/ LocalArrive
    \/ OutsideArrive
    \/ PeerHangUp
    \/ ControlWrite
    \/ ControlClose

Spec == Init /\ [][Next]_vars

(***************************************************************************)
(* The engine under the fairness its scheduling gives: run is one thread   *)
(* that keeps executing, so a poll that can return does, and so does every *)
(* step of the for loop.  Nothing is assumed of the environment, nor of    *)
(* the consumer thread that Join waits for.                                *)
(***************************************************************************)
FairInit ==
    /\ \E c \in Configs : c.local_ports # << 9000, 9000 >> /\ EngineIdle(c)
    /\ CodecIdle

FairSpec ==
    /\ FairInit
    /\ [][Next]_vars
    /\ WF_vars(RunStart)
    /\ WF_vars(Poll)
    /\ WF_vars(ScanSkip)
    /\ WF_vars(ScanControl)
    /\ WF_vars(ScanLocal)
    /\ WF_vars(ScanOutside)

(***************************************************************************)
(* The codec on its own: encode a tuple, then decode the buffer            *)
(***************************************************************************)
\* payloads of every length up to k over the bytes 0 and 255
RECURSIVE ShortPayloads(_)
ShortPayloads(k) ==
    IF k = 0 THEN { << >> }
    ELSE ShortPayloads(k - 1)
           \cup { Append(p, b) : p \in { q \in ShortPayloads(k - 1) : Len(q) = k - 1 },
                                 b \in {0, 255} }

\* the longest payload of the round-trip property
MAX_ROUND_TRIP_PAYLOAD == 1450

CodecPayloads ==
    ShortPayloads(MaxPayloadLen)
      \cup { Ping, Fill(MAX_ROUND_TRIP_PAYLOAD, 171), Fill(MAX_ROUND_TRIP_PAYLOAD - 1, 255) }

CodecAddrs == { << 0, 0, 0, 0 >>, << 255, 255, 255, 255 >>, << 192, 168, 1, 100 >> }

CodecPorts == { 0, 80, 12345, 65535 }

CodecInit ==
    /\ EngineIdle(CHOOSE c \in Configs : c.local_ports = << 9000 >>)
    /\ c_pc = "input"
    /\ c_args \in [payload : CodecPayloads, src_ip : CodecAddrs, dst_ip : CodecAddrs,
                   src_port : CodecPorts, dst_port : CodecPorts]
    /\ c_pkt = << >>
    /\ c_res = None

CodecEncode ==
    /\ c_pc = "input"
    /\ c_pkt' = create_ipv4_udp_packet(c_args.payload, c_args.src_ip, c_args.dst_ip,
                                       c_args.src_port, c_args.dst_port)
    /\ c_pc' = "encoded"
    /\ UNCHANGED << c_args, c_res >>
    /\ UNCHANGED engine_vars

CodecDecode ==
    /\ c_pc = "encoded"
    /\ c_res' = parse_ipv4_udp_packet(c_pkt)
    /\ c_pc' = "decoded"
    /\ UNCHANGED << c_args, c_pkt >>
    /\ UNCHANGED engine_vars

CodecNext == CodecEncode \/ CodecDecode

CodecSpec == CodecInit /\ [][CodecNext]_vars

(***************************************************************************)
(* Reading the record of a cycle                                           *)
(***************************************************************************)
\* positions of cyc that hold a receive
Recvs == { k \in 1..Len(cyc) : cyc[k].op = "recv" }

\* positions of the step that began with the receive at k: up to the next receive
StepOf(k) == { m \in (k + 1)..Len(cyc) : \A q \in (k + 1)..m : cyc[q].op # "recv" }

\* the sends attempted, and the diagnostics printed, in the step of the receive at k
SendsOf(k) == { m \in StepOf(k) : cyc[m].op = "send" }

LogsOf(k) == { cyc[m].res : m \in { q \in StepOf(k) : cyc[q].op = "log" } }

\* what recv returned for the receive at k: the first sz bytes of the datagram
Read(k) == Slice(cyc[k].data, 0, cyc[k].sz)

\* the engine has not been aborted
NotAborted == state \in {"Running", "Terminated"}

\* the step of the receive at k left the engine Running: if the engine has been
\* aborted since, that happened at a later fd of the cycle
LeftRunning(k) == state = "Aborted" => j > cyc[k].ch

\* the control pipe was reported readable or hung up by the last poll
ControlReady == revents # << >> /\ Intersects(revents[n + 1], {"POLLIN", "POLLHUP"})

\* the configured port pairs are pairwise distinct
PairsDistinct ==
    \A a, b \in 1..n : a # b => port_pairs[a] # port_pairs[b]

\* the fields of a packet with a 20-byte header, read at their offsets
SrcIp(p) == Slice(p, 12, 16)

DstIp(p) == Slice(p, 16, 20)

SrcPort(p) == from_be_bytes(p[21], p[22])

DstPort(p) == from_be_bytes(p[23], p[24])

Payload(p) == Slice(p, 28, Len(p))

\* p is what the encoder builds for the fields and the payload it carries
EncoderOutput(p) ==
    /\ Len(p) >= 28
    /\ p = create_ipv4_udp_packet(Payload(p), SrcIp(p), DstIp(p), SrcPort(p), DstPort(p))

\* datagrams waiting on all channels
Queued ==
    Len(outside_in)
      + (IF n >= 1 THEN Len(lsocks_in[1]) ELSE 0)
      + (IF n >= 2 THEN Len(lsocks_in[2]) ELSE 0)

(***************************************************************************)
(* C1: no buffer arriving on the outside channel makes the engine stop or  *)
(* abort: after a datagram has been received from the outside channel the  *)
(* engine is still Running (or has terminated on the control channel).     *)
(* The code violates this: a declared header length beyond the buffer      *)
(* makes the decoder panic.                                                *)
(***************************************************************************)
C1_OutsideInputNeverAborts ==
    \A k \in Recvs : cyc[k].ch = n => NotAborted

(***************************************************************************)
(* C2 as claimed: in a cycle in which the control channel is ready, no     *)
(* receive and no send happens on any channel.  The code violates this.    *)
(***************************************************************************)
C2_ControlCheckedFirst ==
    ControlReady => \A k \in 1..Len(cyc) : cyc[k].op \notin {"recv", "send"}

(***************************************************************************)
(* C2 as amended: the control channel is the last fd of the cycle.  When   *)
(* the engine has terminated, the control channel was ready in that cycle  *)
(* and every data channel that was input-ready in it has been read exactly *)
(* once before; the cycle in which the control channel is ready is the     *)
(* last one (no second poll returns after the signal).                     *)
(***************************************************************************)
C2_ControlCheckedLast ==
    /\ polls_after_signal <= 1
    /\ state = "Terminated" =>
         /\ ControlReady
         /\ j = n + 1
         /\ \A i \in 0..n :
              Cardinality({ k \in Recvs : cyc[k].ch = i })
                = (IF "POLLIN" \in revents[i] THEN 1 ELSE 0)

C2_Witness ==
    /\ state = "Terminated"
    /\ \E k \in Recvs : cyc[k].ch < n /\ SendsOf(k) # {}
    /\ \E k \in Recvs : cyc[k].ch = n /\ SendsOf(k) # {}

C4_RoundTrip ==
    c_pc = "decoded" =>
        c_res = Some(c_args.src_ip, c_args.dst_ip, c_args.src_port, c_args.dst_port,
                     c_args.payload)

C4_Witness ==
    /\ c_pc = "decoded"
    /\ Len(c_args.payload) = MAX_ROUND_TRIP_PAYLOAD
    /\ c_res.tag = "Some"

(***************************************************************************)
(* C5: every local channel that was input-ready is read once when its turn *)
(* comes, and the datagram read from local channel jj is followed by       *)
(* exactly one send, on the outside channel, of the packet whose source    *)
(* address is the local address, destination the remote address, source    *)
(* port pair jj's local port, destination port its remote port and payload *)
(* the datagram read; nothing is sent on a local channel.                  *)
(***************************************************************************)
C5_LocalToOutsideFraming ==
    /\ \A i \in 0..(n - 1) :
         (revents # << >> /\ i < j /\ "POLLIN" \in revents[i])
            => Cardinality({ k \in Recvs : cyc[k].ch = i }) = 1
    /\ \A k \in Recvs :
         cyc[k].ch < n =>
            /\ SendsOf(k) = {k + 1}
            /\ cyc[k + 1].ch = n
            /\ LET pkt == cyc[k + 1].data
                   pp  == port_pairs[cyc[k].ch + 1]
               IN  /\ pkt = create_ipv4_udp_packet(Read(k), cfg.local_addr,
                                                   cfg.remote_addr, pp.local, pp.remote)
                   /\ Len(pkt) = 28 + Len(Read(k))
                   /\ Slice(pkt, 12, 16) = cfg.local_addr
                   /\ Slice(pkt, 16, 20) = cfg.remote_addr
                   /\ from_be_bytes(pkt[21], pkt[22]) = pp.local
                   /\ from_be_bytes(pkt[23], pkt[24]) = pp.remote
                   /\ Slice(pkt, 28, Len(pkt)) = Read(k)

\* scenario A: b"ping" on local channel 0 with pair {9000, 9001}
ScenarioAPacket ==
    << 69, 0, 0, 32, 0, 0, 64, 0, 64, 17, 38, 203, 10, 0, 0, 1, 10, 0, 0, 2,
       35, 40, 35, 41, 0, 12, 0, 0, 112, 105, 110, 103 >>

C5_Witness ==
    \E k \in Recvs :
        /\ cyc[k].ch = 0
        /\ cyc[k].data = Ping
        /\ cyc[k + 1] = EvSend(n, ScenarioAPacket, "Ok")

(***************************************************************************)
(* C6: with pairwise distinct port pairs, a well-formed packet from the    *)
(* remote address to the local address whose ports are those of pair i is  *)
(* followed by exactly one send, on local channel i, of the bare payload,  *)
(* and by no diagnostic when the send succeeds.                            *)
(***************************************************************************)
\* the receive at k took a well-formed packet from the remote address to the
\* local address with the ports of pair i (1-based): an encoder output, or the
\* packet with header options that carries b"ping"
WellFormedFor(k, i) ==
    \/ /\ EncoderOutput(Read(k))
       /\ SrcIp(Read(k)) = cfg.remote_addr
       /\ DstIp(Read(k)) = cfg.local_addr
       /\ PortPair(DstPort(Read(k)), SrcPort(Read(k))) = port_pairs[i]
    \/ Read(k) = WithOptions(Ping, cfg.remote_addr, cfg.local_addr,
                             port_pairs[i].remote, port_pairs[i].local)

\* the payload such a packet carries
PayloadFor(k) == IF EncoderOutput(Read(k)) THEN Payload(Read(k)) ELSE Ping

\* C6: such a packet is followed by one send, on local channel i - 1 only, of
\* the bare payload
C6_OutsideToLocalDelivery ==
    PairsDistinct =>
        \A k \in Recvs : \A i \in 1..n :
            (cyc[k].ch = n /\ WellFormedFor(k, i)) =>
                /\ SendsOf(k) = {k + 1}
                /\ cyc[k + 1].ch = i - 1
                /\ cyc[k + 1].data = PayloadFor(k)
                /\ cyc[k + 1].res = "Ok" => LogsOf(k) = {}

C6_Witness ==
    /\ PairsDistinct
    /\ \E k \in Recvs :
         /\ cyc[k].ch = n
         /\ WellFormedFor(k, 2)
         /\ cyc[k + 1] = EvSend(1, Ping, "Ok")
         /\ LogsOf(k) = {}

(***************************************************************************)
(* C7: a packet from the remote address to the local address whose ports   *)
(* are no configured pair is followed by no send, the miss is reported,    *)
(* and the engine is not aborted.                                          *)
(***************************************************************************)
C7_RoutingMiss ==
    \A k \in Recvs :
        ( /\ cyc[k].ch = n
          /\ EncoderOutput(Read(k))
          /\ SrcIp(Read(k)) = cfg.remote_addr
          /\ DstIp(Read(k)) = cfg.local_addr
          /\ \A i \in 1..n :
               port_pairs[i] # PortPair(DstPort(Read(k)), SrcPort(Read(k))) )
        => /\ SendsOf(k) = {}
           /\ LogsOf(k) = {"No matching port pair found"}
           /\ LeftRunning(k)

C7_Witness ==
    \E k \in Recvs :
        /\ cyc[k].ch = n
        /\ Read(k) = create_ipv4_udp_packet(Ping, cfg.remote_addr, cfg.local_addr,
                                            9000, 9001)
        /\ pc = "scan"
        /\ j = n + 1

(***************************************************************************)
(* C8: a packet whose source is not the remote address, or whose           *)
(* destination is not the local address, is followed by no send, whatever  *)
(* its ports, and the engine is not aborted.                               *)
(***************************************************************************)
C8_AddressMismatch ==
    \A k \in Recvs :
        ( /\ cyc[k].ch = n
          /\ EncoderOutput(Read(k))
          /\ (SrcIp(Read(k)) # cfg.remote_addr \/ DstIp(Read(k)) # cfg.local_addr) )
        => /\ SendsOf(k) = {}
           /\ LogsOf(k) \subseteq {"Source IP mismatch", "Destination IP mismatch"}
           /\ LogsOf(k) # {}
           /\ LeftRunning(k)

C8_Witness ==
    /\ \E k \in Recvs :
         /\ cyc[k].ch = n
         /\ Read(k) = create_ipv4_udp_packet(Ping, cfg.remote_addr, Addr3, 9001, 9000)
         /\ LogsOf(k) = {"Destination IP mismatch"}
    /\ pc = "scan"
    /\ j = n + 1

(***************************************************************************)
(* C9: a send is attempted only right after the receive of the datagram it *)
(* forwards, in the same step; when it would block there is no second      *)
(* attempt, the drop is reported and the engine is not aborted; a datagram *)
(* that was received is no longer queued anywhere, so it cannot be sent    *)
(* later; and when the engine waits in poll nothing is under way.          *)
(***************************************************************************)
C9_Backpressure ==
    /\ \A m \in 1..Len(cyc) :
         cyc[m].op = "send" =>
            /\ m - 1 \in Recvs
            /\ IF cyc[m - 1].ch < n
               THEN Slice(cyc[m].data, 28, Len(cyc[m].data)) = Read(m - 1)
               ELSE \E off \in 0..Len(Read(m - 1)) :
                        cyc[m].data = Slice(Read(m - 1), off, off + Len(cyc[m].data))
            /\ cyc[m].res = "WouldBlock" =>
                 /\ SendsOf(m - 1) = {m}
                 /\ LogsOf(m - 1) = {"drop"}
                 /\ LeftRunning(m - 1)
    /\ Queued + Cardinality(Recvs) <= arrivals - Cardinality(hup)
    /\ Parked => cyc = << >>

C9_Witness ==
    /\ \E m \in 1..Len(cyc) :
         cyc[m].op = "send" /\ cyc[m].ch = n /\ cyc[m].res = "WouldBlock"
    /\ \E m \in 1..Len(cyc) :
         cyc[m].op = "send" /\ cyc[m].ch < n /\ cyc[m].res = "WouldBlock"
    /\ pc = "scan"

(***************************************************************************)
(* C10: the engine is aborted only by a failure of poll or of a receive.   *)
(* The code violates this: the decoder's panic of C1 aborts it as well.    *)
(***************************************************************************)
C10_OnlyFatalIoAborts ==
    state = "Aborted" => panic \in {"poll failed", "recv failed"}

(***************************************************************************)
(* C11 as claimed: run ends in one of two ways, both through its return    *)
(* value: Ok after the control channel was signalled, or an Err describing *)
(* a fatal I/O failure; nothing ends it by a panic.  The code violates     *)
(* this: a failure of poll or of recv panics.                              *)
(***************************************************************************)
C11_TwoOutcomesByReturn ==
    /\ panic \notin {"poll failed", "recv failed"}
    /\ ret = "Ok" => pipe # "open"

(***************************************************************************)
(* C11 as amended: run ends in one of three ways.  It returns Ok only      *)
(* after the control channel was signalled, the loop has terminated and    *)
(* the consumer has been joined.  It returns Err only for port lists of    *)
(* unequal length, before the engine has started.  Every failure of the    *)
(* engine (of poll, of a receive, in the decoder) and a panicked consumer  *)
(* end run by a panic, with no return value.                               *)
(***************************************************************************)
C11_OutcomesOfRun ==
    /\ (pc = "returned") = (ret # "none")
    /\ (pc = "panicked") = (panic # "none")
    /\ ret = "Ok" =>
         /\ state = "Terminated"
         /\ pipe # "open"
         /\ handle = "joined"
    /\ ret = "Err" =>
         /\ state = "NotStarted"
         /\ Len(cfg.local_ports) # Len(cfg.remote_ports)
         /\ handle = "none"
    /\ state = "Aborted" =>
         /\ ret = "none"
         /\ panic \in {"poll failed", "recv failed", "index out of range"}
    /\ panic = "AxlRust thread panicked" => state = "Terminated" /\ ret = "none"

C11_Witness ==
    /\ state = "Aborted"
    /\ panic = "poll failed"
    /\ pc = "panicked"
    /\ ret = "none"

(***************************************************************************)
(* The codec on tampered buffers: encode a tuple, alter the buffer, decode *)
(***************************************************************************)
\* 2^16: `as u16` keeps a length modulo this (udp.rs lines 44 and 60)
LENGTH_WRAP == 65536

\* the most trailing bytes removed from a long buffer, besides the cuts that
\* leave about a bare header
MaxCut == 3

\* the byte with bit number `bit` (0 the least significant) inverted
FlipBit(b, bit) ==
    IF (b \div (2 ^ bit)) % 2 = 1 THEN b - 2 ^ bit ELSE b + 2 ^ bit

\* numbers of trailing bytes to remove from a buffer: every cut that leaves at
\* most 29 bytes, and the first MaxCut ones
Cuts(packet) ==
    { k \in 1..Len(packet) : k <= MaxCut \/ Len(packet) - k <= 29 }

\* address and port tuples of the tampered packets
TamperEndpoints ==
    { [src_ip |-> Addr2, dst_ip |-> Addr1, src_port |-> 9001, dst_port |-> 9000],
      [src_ip |-> << 255, 255, 255, 255 >>, dst_ip |-> << 0, 0, 0, 0 >>,
       src_port |-> 65535, dst_port |-> 0],
      [src_ip |-> << 192, 168, 1, 100 >>, dst_ip |-> << 192, 168, 1, 1 >>,
       src_port |-> 12345, dst_port |-> 80] }

\* the encoder's arguments and the kind of tampering: short payloads for every
\* kind, and for truncation a payload of 2^16 bytes as well
TamperInputs ==
    { [payload |-> p, src_ip |-> e.src_ip, dst_ip |-> e.dst_ip,
       src_port |-> e.src_port, dst_port |-> e.dst_port, tamper |-> t] :
          p \in ShortPayloads(MaxPayloadLen) \cup { Ping, Fill(24, 171) },
          e \in TamperEndpoints,
          t \in {"truncate", "protocol", "flip"} }
      \cup { [payload |-> Fill(LENGTH_WRAP, 0), src_ip |-> Addr2, dst_ip |-> Addr1,
              src_port |-> 9001, dst_port |-> 9000, tamper |-> "truncate"] }

TamperInit ==
    /\ EngineIdle(CHOOSE c \in Configs : c.local_ports = << 9000 >>)
    /\ c_pc = "input"
    /\ c_args \in TamperInputs
    /\ c_pkt = << >>
    /\ c_res = None

\* trailing bytes are removed from the encoder's output
TamperTruncate ==
    /\ c_pc = "encoded"
    /\ c_args.tamper = "truncate"
    /\ \E k \in Cuts(c_pkt) : c_pkt' = Slice(c_pkt, 0, Len(c_pkt) - k)
    /\ c_pc' = "tampered"
    /\ UNCHANGED << c_args, c_res >>
    /\ UNCHANGED engine_vars

\* the protocol byte is replaced by a value other than 17, and the header
\* checksum is left as it was or recomputed for the new header
TamperProtocol ==
    /\ c_pc = "encoded"
    /\ c_args.tamper = "protocol"
    /\ \E b \in (0..255) \ {17} : \E fix \in BOOLEAN :
         c_pkt' = IF fix THEN Rechecksum(SetByte(c_pkt, 9, b), IPV4_HEADER_LEN)
                         ELSE SetByte(c_pkt, 9, b)
    /\ c_pc' = "tampered"
    /\ UNCHANGED << c_args, c_res >>
    /\ UNCHANGED engine_vars

\* one bit of the first 20 bytes is inverted
TamperFlipBit ==
    /\ c_pc = "encoded"
    /\ c_args.tamper = "flip"
    /\ \E k \in 0..(IPV4_HEADER_LEN - 1) : \E bit \in 0..7 :
         c_pkt' = SetByte(c_pkt, k, FlipBit(c_pkt[k + 1], bit))
    /\ c_pc' = "tampered"
    /\ UNCHANGED << c_args, c_res >>
    /\ UNCHANGED engine_vars

\* the altered buffer is decoded
TamperDecode ==
    /\ c_pc = "tampered"
    /\ c_res' = parse_ipv4_udp_packet(c_pkt)
    /\ c_pc' = "tamper_decoded"
    /\ UNCHANGED << c_args, c_pkt >>
    /\ UNCHANGED engine_vars

TamperNext ==
    \/ CodecEncode
    \/ TamperTruncate
    \/ TamperProtocol
    \/ TamperFlipBit
    \/ TamperDecode

TamperSpec == TamperInit /\ [][TamperNext]_vars

(***************************************************************************)
(* C12: an encoder output with trailing bytes removed is rejected by the   *)
(* decoder: it returns None.  The code violates this for a payload of 2^16 *)
(* bytes: the length fields wrap, and the first 28 bytes of the output     *)
(* are accepted.                                                           *)
(***************************************************************************)
C12_TruncationRejected ==
    (c_pc = "tamper_decoded" /\ c_args.tamper = "truncate") => c_res = None

(***************************************************************************)
(* C13: an encoder output whose protocol byte is replaced by a value other *)
(* than 17 is rejected by the decoder (it returns None), both with the     *)
(* header checksum left as it was and with the checksum made valid again.  *)
(***************************************************************************)
C13_WrongProtocolRejected ==
    (c_pc = "tamper_decoded" /\ c_args.tamper = "protocol") => c_res = None

C13_Witness ==
    /\ c_pc = "tamper_decoded"
    /\ c_args.tamper = "protocol"
    /\ c_args.payload = Ping
    /\ c_pkt[10] = 6
    /\ checksum(Slice(c_pkt, 0, IPV4_HEADER_LEN)) = 0
    /\ c_res = None

(***************************************************************************)
(* C14: an encoder output with one bit of its first 20 bytes inverted, the *)
(* checksum over those 20 bytes no longer folding to zero, is rejected by  *)
(* the decoder: it returns None.  The code violates this: inverting bit 3  *)
(* of byte 0 declares a header of 52 bytes, and on a shorter buffer the    *)
(* decoder panics (the fault of C1).                                       *)
(***************************************************************************)
C14_HeaderBitFlipRejected ==
    ( /\ c_pc = "tamper_decoded"
      /\ c_args.tamper = "flip"
      /\ checksum(Slice(c_pkt, 0, IPV4_HEADER_LEN)) # 0 )
    => c_res = None

(***************************************************************************)
(* C15: a datagram taken from a local channel is forwarded at most once,   *)
(* with the whole datagram as the payload of the packet sent; a datagram   *)
(* taken from the outside channel is forwarded at most once, as the        *)
(* payload the decoder finds in it.  The code violates this: recv cuts a   *)
(* datagram longer than the scratch buffer to the buffer's length.         *)
(***************************************************************************)
C15_PayloadsOpaque ==
    \A k \in Recvs :
        /\ Cardinality(SendsOf(k)) <= 1
        /\ \A m \in SendsOf(k) :
             IF cyc[k].ch < n
             THEN Payload(cyc[m].data) = cyc[k].data
             ELSE LET got == parse_ipv4_udp_packet(cyc[k].data)
                  IN  got.tag = "Some" /\ cyc[m].data = got.payload

(***************************************************************************)
(* C16: the engine is Terminated only through the control channel: the     *)
(* control peer has written or closed, the last poll reported the control  *)
(* fd ready and the for loop stood at it.  A data channel for which poll   *)
(* reported a hang-up and no input is passed over: nothing is received     *)
(* from it (hence nothing sent for it) in that cycle.                      *)
(***************************************************************************)
C16_TerminatedOnlyByControl ==
    /\ state = "Terminated" =>
         /\ pipe # "open"
         /\ ControlReady
         /\ j = n + 1
    /\ \A i \in 0..n :
         (revents # << >> /\ revents[i] = {"POLLHUP"}) =>
             \A k \in Recvs : cyc[k].ch # i

C16_Witness ==
    /\ state = "Running"
    /\ pipe = "open"
    /\ pc = "scan"
    /\ j = n + 1
    /\ revents[0] = {"POLLHUP"}
    /\ revents[n] = {"POLLHUP"}
    /\ cyc = << >>

(***************************************************************************)
(* C17: the receives of a cycle happen in increasing fd order, local       *)
(* channels 0 .. n-1 and then the outside channel n, so at most one per    *)
(* channel; each is on a channel that poll reported input-ready and that   *)
(* the for loop has reached.                                               *)
(***************************************************************************)
C17_FixedOrderOnePerCycle ==
    /\ \A k1, k2 \in Recvs : k1 < k2 => cyc[k1].ch < cyc[k2].ch
    /\ \A k \in Recvs :
         /\ cyc[k].ch \in 0..n
         /\ "POLLIN" \in revents[cyc[k].ch]
         /\ cyc[k].ch <= j

\* two datagrams were queued on local channel 0: the cycle has read the first,
\* has gone on to the last fd, and the second is still queued
C17_Witness ==
    /\ pc = "scan"
    /\ j = n + 1
    /\ \E k \in Recvs : cyc[k].ch = 0 /\ SendsOf(k) # {}
    /\ Len(lsocks_in[1]) = 1
    /\ arrivals = 2

(***************************************************************************)
(* C18: a data channel for which the last poll reported no input is passed *)
(* over: no receive is made on it, so no receive fails on it; every send   *)
(* of the cycle forwards a datagram received from a channel that was       *)
(* reported input-ready; and the channel's queue is as it was at the poll  *)
(* (empty, as no input was reported).                                      *)
(***************************************************************************)
\* the datagrams waiting on data channel i
QueueOf(i) == IF i < n THEN lsocks_in[i + 1] ELSE outside_in

C18_NotReadySkipped ==
    /\ revents # << >> =>
         \A i \in 0..n :
             "POLLIN" \notin revents[i] =>
                 /\ \A k \in Recvs : cyc[k].ch # i
                 /\ QueueOf(i) = << >>
    /\ \A m \in 1..Len(cyc) :
         cyc[m].op = "send" =>
             /\ m - 1 \in Recvs
             /\ "POLLIN" \in revents[cyc[m - 1].ch]
    /\ (state = "Aborted" /\ panic = "recv failed") => "POLLIN" \in revents[j]

\* local channel 0 had no input, local channel 1 had and was read, and the
\* cycle has gone on to the last fd
C18_Witness ==
    /\ state = "Running"
    /\ pc = "scan"
    /\ j = n + 1
    /\ n = 2
    /\ revents[0] = {}
    /\ \E k \in Recvs : cyc[k].ch = 1
    /\ \A k \in Recvs : cyc[k].ch # 0
    /\ lsocks_in[1] = << >>

(***************************************************************************)
(* The two entries: run called with a configuration, or forward called by  *)
(* a caller of its own (as main.rs does) with port pairs and local sockets *)
(* of its choice.  In a direct call pc = "join" with handle = "none" means *)
(* that forward has returned to that caller.                               *)
(***************************************************************************)
\* (port pairs, number of local sockets) handed to forward by a direct caller
ForwardCalls ==
    LET P == PortPair(9000, 9001)
        Q == PortPair(9002, 9003)
    IN  { << << P >>, 1 >>, << << >>, 1 >>, << << P >>, 0 >>, << << P >>, 2 >>,
          << << P, Q >>, 1 >>, << << P, Q >>, 3 >> }

\* the state in which forward is called with the arguments of call
ForwardCalled(call) ==
    /\ cfg = CHOOSE c \in Configs : c.local_ports = << 9000 >>
    /\ pc = "forward_call"
    /\ state = "NotStarted"
    /\ ret = "none"
    /\ panic = "none"
    /\ port_pairs = call[1]
    /\ pp2idx = << >>
    /\ revents = << >>
    /\ j = 0
    /\ buf = << >>
    /\ lsocks_in = [i \in 1..call[2] |-> << >>]
    /\ outside_in = << >>
    /\ pipe = "open"
    /\ hup = {}
    /\ handle = "none"
    /\ cyc = << >>
    /\ arrivals = 0
    /\ polls_after_signal = 0

EntryInit ==
    /\ \/ \E c \in Configs : c.local_ports # << 9000, 9000 >> /\ EngineIdle(c)
       \/ \E call \in ForwardCalls : ForwardCalled(call)
    /\ CodecIdle

\* faulty variant: the lengths are not compared and forward goes on to its loop
ForwardAssertFail_Unchecked ==
    /\ pc = "forward_call"
    /\ Len(port_pairs) # Len(lsocks_in)
    /\ pp2idx' = Pp2Idx(port_pairs)
    /\ state' = "Running"
    /\ pc' = "poll"
    /\ UNCHANGED << cfg, ret, panic, port_pairs, revents, j, buf, lsocks_in,
                    outside_in, pipe, hup, handle, cyc, arrivals,
                    polls_after_signal >>
    /\ UNCHANGED codec_vars

\* assert_eq!(port_pairs.len(), sockets.len()) fails (line 42)
ForwardAssertFail ==
    /\ pc = "forward_call"
    /\ Len(port_pairs) # Len(lsocks_in)
    /\ Abort("assertion failed")
    /\ UNCHANGED << cfg, ret, port_pairs, pp2idx, revents, j, buf, lsocks_in,
                    outside_in, pipe, hup, handle, cyc, arrivals,
                    polls_after_signal >>
    /\ UNCHANGED codec_vars

\* the assertion holds: forward builds pp2idx and the buffer and enters its loop
ForwardEnter ==
    /\ pc = "forward_call"
    /\ Len(port_pairs) = Len(lsocks_in)
    /\ pp2idx' = Pp2Idx(port_pairs)
    /\ buf' = << >>
    /\ state' = "Running"
    /\ pc' = "poll"
    /\ UNCHANGED << cfg, ret, panic, port_pairs, revents, j, lsocks_in,
                    outside_in, pipe, hup, handle, cyc, arrivals,
                    polls_after_signal >>
    /\ UNCHANGED codec_vars

EntryNext ==
    \/ ForwardAssertFail
    \/ ForwardEnter
    \/ Next

EntrySpec == EntryInit /\ [][EntryNext]_vars

(***************************************************************************)
(* C19: the engine runs only with as many port pairs as local sockets.     *)
(* forward called with different numbers panics on its assertion with      *)
(* nothing polled, received, sent or built; run called with port lists of  *)
(* different lengths returns Err with no port pair and no socket made and  *)
(* no consumer started.                                                    *)
(***************************************************************************)
C19_LengthPrecondition ==
    /\ Len(port_pairs) # Len(lsocks_in) => state \in {"NotStarted", "Aborted"}
    /\ state = "Running" =>
         (handle # "none" => Len(cfg.local_ports) = Len(cfg.remote_ports))
    /\ panic = "assertion failed" =>
         /\ Len(port_pairs) # Len(lsocks_in)
         /\ state = "Aborted"
         /\ revents = << >>
         /\ cyc = << >>
         /\ pp2idx = << >>
         /\ polls_after_signal = 0
    /\ ret = "Err" =>
         /\ Len(cfg.local_ports) # Len(cfg.remote_ports)
         /\ state = "NotStarted"
         /\ port_pairs = << >>
         /\ lsocks_in = << >>
         /\ handle = "none"
         /\ revents = << >>
         /\ cyc = << >>

C19_Witness ==
    /\ panic = "assertion failed"
    /\ pc = "panicked"
    /\ Len(port_pairs) = 2
    /\ Len(lsocks_in) = 1

(***************************************************************************)
(* C20: once the engine has been set up, the port pairs are those zipped   *)
(* from the configuration and pp2idx is their index, in every state; when  *)
(* the pairs are pairwise distinct pp2idx has exactly n entries and maps   *)
(* the pair of channel jj back to jj.                                      *)
(***************************************************************************)
C20_RegistryInverse ==
    state # "NotStarted" =>
        /\ port_pairs = ZipPorts(cfg.local_ports, cfg.remote_ports)
        /\ DOMAIN pp2idx = { port_pairs[i] : i \in 1..n }
        /\ \A pp \in DOMAIN pp2idx : pp2idx[pp] \in 0..(n - 1) /\ port_pairs[pp2idx[pp] + 1] = pp
        /\ PairsDistinct =>
             /\ Cardinality(DOMAIN pp2idx) = n
             /\ \A jj \in 0..(n - 1) : pp2idx[port_pairs[jj + 1]] = jj

\* a run with two distinct pairs that has routed an outside packet to channel 1
C20_Witness ==
    /\ PairsDistinct
    /\ n = 2
    /\ pp2idx[PortPair(9002, 9003)] = 1
    /\ \E m \in 1..Len(cyc) : cyc[m].op = "send" /\ cyc[m].ch = 1

(***************************************************************************)
(* C21: a well-formed packet from the remote address to the local address  *)
(* with the ports of pair i is sent once, to the last local channel that   *)
(* is configured with that pair, and to no other; so with two identical    *)
(* pairs it goes to the later channel, never to the earlier.  A datagram   *)
(* read from either channel is sent outside with that pair's ports.        *)
(***************************************************************************)
\* the last channel (0-based) whose pair is pair i's (1-based)
LastWith(i) ==
    CHOOSE c \in 0..(n - 1) :
        /\ port_pairs[c + 1] = port_pairs[i]
        /\ \A m \in 0..(n - 1) : port_pairs[m + 1] = port_pairs[i] => m <= c

C21_CollisionLaterWins ==
    /\ \A k \in Recvs : \A i \in 1..n :
         (cyc[k].ch = n /\ WellFormedFor(k, i)) =>
             /\ SendsOf(k) = {k + 1}
             /\ cyc[k + 1].ch = LastWith(i)
             /\ cyc[k + 1].data = PayloadFor(k)
    /\ \A k \in Recvs :
         cyc[k].ch < n =>
             /\ SendsOf(k) = {k + 1}
             /\ cyc[k + 1].ch = n
             /\ SrcPort(cyc[k + 1].data) = port_pairs[cyc[k].ch + 1].local
             /\ DstPort(cyc[k + 1].data) = port_pairs[cyc[k].ch + 1].remote

\* both channels have the pair {9000, 9001}: a datagram read from channel 0 went
\* outside with these ports, and a matching outside packet went to channel 1
C21_Witness ==
    /\ n = 2
    /\ port_pairs[1] = port_pairs[2]
    /\ \E k \in Recvs :
         /\ cyc[k].ch = 0
         /\ SrcPort(cyc[k + 1].data) = 9000
         /\ DstPort(cyc[k + 1].data) = 9001
    /\ \E k \in Recvs :
         /\ cyc[k].ch = n
         /\ WellFormedFor(k, 1)
         /\ cyc[k + 1] = EvSend(1, Ping, "Ok")

(***************************************************************************)
(* The decoder on raw buffers: well-formed packets and variations of them  *)
(***************************************************************************)
\* raw_packet of tests::example_raw_decode
RawExample ==
    << 69, 0, 0, 34, 0, 0, 64, 0, 64, 17, 183, 21,
       192, 168, 1, 100,
       192, 168, 1, 1,
       48, 57, 0, 80, 0, 14, 0, 0,
       72, 101, 108, 108, 111, 33 >>

\* the header length to checksum a varied buffer over: the declared one when it
\* is a header length within the buffer
FixLen(packet) ==
    IF Ihl(packet) >= IPV4_HEADER_LEN /\ Ihl(packet) <= Len(packet)
    THEN Ihl(packet) ELSE IPV4_HEADER_LEN

\* packet (header of h bytes, UDP length as declared and within the buffer)
\* with the UDP checksum field set to the checksum over the pseudo-header,
\* the UDP header with a zero checksum field, and the payload
WithUdpChecksum(packet, h) ==
    LET z      == SetByte(SetByte(packet, h + 6, 0), h + 7, 0)
        L      == from_be_bytes(z[h + 5], z[h + 6])
        pseudo == Slice(z, 12, 20) \o << 0, 17 >> \o to_be_bytes(L) \o Slice(z, h, h + L)
        ck     == checksum(pseudo)
    IN  SetByte(SetByte(z, h + 6, ck \div 256), h + 7, ck % 256)

\* well-formed packets: encoder outputs, the test vector, a header with options
RawBases ==
    { create_ipv4_udp_packet(Ping, Addr2, Addr1, 9001, 9000),
      create_ipv4_udp_packet(<< >>, Addr2, Addr1, 9001, 9000),
      RawExample,
      WithOptions(Ping, Addr2, Addr1, 9001, 9000) }

\* one byte of b replaced: in the header-length, total-length, protocol and
\* checksum fields and in the UDP length and checksum fields
ByteVariations(b) ==
    { SetByte(b, k, v) :
          k \in {0, 2, 3, 9, 10, Ihl(b) + 4, Ihl(b) + 5, Ihl(b) + 6, Ihl(b) + 7},
          v \in {0, 1, 7, 8, 9, 17, 28, 69, 70, 71, 79, 255} }

\* longer and shorter buffers
LengthVariations(b) ==
    { b \o << 0 >>, b \o << 0, 0, 0, 0 >>, Slice(b, 0, Len(b) - 1), Slice(b, 0, 27),
      Slice(b, 0, 20), << >> }

\* buffers given to the decoder: the well-formed ones, their variations as they
\* are and with the header checksum made valid again, and the same with a UDP
\* checksum that is valid, or valid for another payload
RawBuffers ==
    LET plain == UNION { {b} \cup ByteVariations(b) \cup LengthVariations(b) : b \in RawBases }
        fixed == { Rechecksum(x, FixLen(x)) : x \in { y \in plain : Len(y) >= IPV4_HEADER_LEN } }
        udp   == { WithUdpChecksum(b, Ihl(b)) : b \in RawBases }
        bad   == { SetByte(x, Len(x) - 1, (x[Len(x)] + 1) % 256) : x \in udp }
                   \cup { SetByte(x, Ihl(x) + 7, (x[Ihl(x) + 8] + 1) % 256) : x \in udp }
    IN  plain \cup fixed \cup udp \cup bad

DecodeInit ==
    /\ EngineIdle(CHOOSE c \in Configs : c.local_ports = << 9000 >>)
    /\ c_pc = "raw"
    /\ c_args = << >>
    /\ c_pkt \in RawBuffers
    /\ c_res = None

\* the buffer is decoded
RawDecode ==
    /\ c_pc = "raw"
    /\ c_res' = parse_ipv4_udp_packet(c_pkt)
    /\ c_pc' = "raw_decoded"
    /\ UNCHANGED << c_args, c_pkt >>
    /\ UNCHANGED engine_vars

DecodeNext == RawDecode

DecodeSpec == DecodeInit /\ [][DecodeNext]_vars

(***************************************************************************)
(* C22: whenever the decoder returns a result, the buffer has at least 28  *)
(* bytes, its declared header length is at least 20, its total-length      *)
(* field equals the buffer length, its protocol byte is 17, the checksum   *)
(* over the declared header length is zero, its UDP length L has 8 <= L    *)
(* and header length + L <= buffer length, the returned addresses and      *)
(* ports are the bytes at offsets 12, 16 and at the declared header        *)
(* offset, and the returned payload is the L - 8 bytes from header length  *)
(* + 8.                                                                    *)
(***************************************************************************)
C22_DecoderAcceptanceSound ==
    (c_pc = "raw_decoded" /\ c_res.tag = "Some") =>
        LET h == (c_pkt[1] % 16) * 4 IN
        /\ Len(c_pkt) >= 28
        /\ h >= 20
        /\ c_pkt[3] * 256 + c_pkt[4] = Len(c_pkt)
        /\ c_pkt[10] = 17
        /\ h + 8 <= Len(c_pkt)
        /\ checksum(SubSeq(c_pkt, 1, h)) = 0
        /\ LET L == c_pkt[h + 5] * 256 + c_pkt[h + 6] IN
           /\ 8 <= L
           /\ h + L <= Len(c_pkt)
           /\ c_res.src_ip = SubSeq(c_pkt, 13, 16)
           /\ c_res.dst_ip = SubSeq(c_pkt, 17, 20)
           /\ c_res.src_port = c_pkt[h + 1] * 256 + c_pkt[h + 2]
           /\ c_res.dst_port = c_pkt[h + 3] * 256 + c_pkt[h + 4]
           /\ Len(c_res.payload) = L - 8
           /\ c_res.payload = SubSeq(c_pkt, h + 9, h + L)

\* the test vector has been decoded to its addresses, its ports and "Hello!"
C22_Witness ==
    /\ c_pc = "raw_decoded"
    /\ c_pkt = RawExample
    /\ c_res = Some(<< 192, 168, 1, 100 >>, << 192, 168, 1, 1 >>, 12345, 80,
                    << 72, 101, 108, 108, 111, 33 >>)

(***************************************************************************)
(* C23: of the buffers that pass every other check of the decoder, one     *)
(* whose UDP checksum field is zero is accepted, and one whose UDP         *)
(* checksum field is not zero is accepted exactly when the checksum over   *)
(* source IP, destination IP, a zero byte, 17, the UDP length and the UDP  *)
(* header and payload is zero.                                             *)
(***************************************************************************)
C23_UdpChecksumHandling ==
    LET h == (c_pkt[1] % 16) * 4 IN
    (/\ c_pc = "raw_decoded"
     /\ Len(c_pkt) >= 28
     /\ h >= 20
     /\ c_pkt[3] * 256 + c_pkt[4] = Len(c_pkt)
     /\ c_pkt[10] = 17
     /\ h + 8 <= Len(c_pkt)
     /\ checksum(SubSeq(c_pkt, 1, h)) = 0
     /\ c_pkt[h + 5] * 256 + c_pkt[h + 6] >= 8
     /\ h + c_pkt[h + 5] * 256 + c_pkt[h + 6] <= Len(c_pkt)) =>
        LET L      == c_pkt[h + 5] * 256 + c_pkt[h + 6]
            field  == c_pkt[h + 7] * 256 + c_pkt[h + 8]
            pseudo == SubSeq(c_pkt, 13, 20) \o << 0, 17, L \div 256, L % 256 >>
                        \o SubSeq(c_pkt, h + 1, h + L)
        IN  /\ field = 0 => c_res.tag = "Some"
            /\ field # 0 => (c_res.tag = "Some" <=> checksum(pseudo) = 0)

\* a packet with a non-zero UDP checksum that is valid has been accepted
C23_Witness ==
    /\ c_pc = "raw_decoded"
    /\ c_pkt = WithUdpChecksum(RawExample, 20)
    /\ c_pkt[27] * 256 + c_pkt[28] # 0
    /\ c_res.tag = "Some"
    /\ c_res.payload = << 72, 101, 108, 108, 111, 33 >>

(***************************************************************************)
(* C24: for every payload and tuple of addresses and ports the encoder     *)
(* returns 28 + payload length bytes: 0x45, 0x00, total length = 28 +      *)
(* payload length, identification 0, flags/fragment 0x4000, TTL 64,        *)
(* protocol 17, header checksum, source IP, destination IP, source port,   *)
(* destination port, UDP length = 8 + payload length, UDP checksum 0, the  *)
(* payload; and the checksum of its first 20 bytes is zero.                *)
(***************************************************************************)
C24_EncoderOutputFormat ==
    c_pc = "encoded" =>
        LET p == c_args.payload IN
        /\ Len(c_pkt) = 28 + Len(p)
        /\ SubSeq(c_pkt, 1, 2) = << 69, 0 >>
        /\ c_pkt[3] * 256 + c_pkt[4] = 28 + Len(p)
        /\ SubSeq(c_pkt, 5, 10) = << 0, 0, 64, 0, 64, 17 >>
        /\ SubSeq(c_pkt, 13, 16) = c_args.src_ip
        /\ SubSeq(c_pkt, 17, 20) = c_args.dst_ip
        /\ c_pkt[21] * 256 + c_pkt[22] = c_args.src_port
        /\ c_pkt[23] * 256 + c_pkt[24] = c_args.dst_port
        /\ c_pkt[25] * 256 + c_pkt[26] = 8 + Len(p)
        /\ SubSeq(c_pkt, 27, 28) = << 0, 0 >>
        /\ SubSeq(c_pkt, 29, Len(c_pkt)) = p
        /\ checksum(SubSeq(c_pkt, 1, 20)) = 0

(***************************************************************************)
(* C25: every packet the engine sends on the outside channel has a         *)
(* total-length field equal to its byte length and a UDP-length field      *)
(* equal to 8 + the length of the payload framed, which is what recv       *)
(* returned and is at most the 4096 bytes of the scratch buffer.           *)
(***************************************************************************)
C25_NoLengthOverflow ==
    \A m \in 1..Len(cyc) :
        (cyc[m].op = "send" /\ cyc[m].ch = n) =>
            LET d == cyc[m].data IN
            /\ m - 1 \in Recvs
            /\ cyc[m - 1].sz <= 4096
            /\ Len(d) = 28 + cyc[m - 1].sz
            /\ d[3] * 256 + d[4] = Len(d)
            /\ d[25] * 256 + d[26] = 8 + cyc[m - 1].sz
            /\ SubSeq(d, 29, Len(d)) = SubSeq(cyc[m - 1].data, 1, cyc[m - 1].sz)

\* a datagram of 4097 bytes was read from local channel 0 and a packet of
\* 28 + 4096 bytes was sent on the outside channel
C25_Witness ==
    \E m \in 2..Len(cyc) :
        /\ cyc[m - 1].op = "recv"
        /\ cyc[m - 1].ch = 0
        /\ Len(cyc[m - 1].data) = 4097
        /\ cyc[m].op = "send"
        /\ cyc[m].ch = n
        /\ cyc[m].res = "Ok"
        /\ Len(cyc[m].data) = 4124
        /\ cyc[m].data[3] * 256 + cyc[m].data[4] = 4124
        /\ cyc[m].data[25] * 256 + cyc[m].data[26] = 4104

(***************************************************************************)
(* Two engines with mirrored configurations whose outside channels are     *)
(* connected.  The engine of the state variables is B, in full.  Of        *)
(* engine A the arm for its local sockets is modelled: A's local address   *)
(* is B's remote address, A's remote address is B's local address, and A's *)
(* pair jj is {local: B's pair jj remote, remote: B's pair jj local}.      *)
(* What A sends on its outside socket arrives on B's outside socket.       *)
(* c_args is the record of what A has read and sent.                       *)
(***************************************************************************)
\* datagrams A's consumer writes to a local channel of A: short ones, the longest
\* whose packet fits B's scratch buffer, and one a byte longer
MirrorDatagrams == { << >>, Ping, Fill(BUF_LEN - 28, 7), Fill(BUF_LEN - 27, 7) }

\* the packet A builds for a datagram read from its local socket jj
\* (lines 86-92 with A's configuration)
MirrorFrame(jj, data) ==
    create_ipv4_udp_packet(data, cfg.remote_addr, cfg.local_addr,
                           port_pairs[jj + 1].remote, port_pairs[jj + 1].local)

MirrorInit ==
    /\ \E c \in Configs :
         /\ Len(c.local_ports) = Len(c.remote_ports)
         /\ \A a, b \in 1..Len(c.local_ports) :
              a # b => PortPair(c.local_ports[a], c.remote_ports[a])
                         # PortPair(c.local_ports[b], c.remote_ports[b])
         /\ EngineIdle(c)
    /\ c_pc = "mirror"
    /\ c_args = << >>
    /\ c_pkt = << >>
    /\ c_res = None

\* A's arm for a local socket (lines 82-102): one datagram is received into A's
\* scratch buffer, framed and sent on A's outside socket; a send that succeeds
\* puts the packet on B's outside socket
MirrorForward ==
    /\ Parked
    /\ arrivals < MaxArrivals
    /\ \E jj \in 0..(n - 1) : \E d \in MirrorDatagrams : \E res \in SendResults :
         LET sz  == Min(Len(d), BUF_LEN)
             pkt == MirrorFrame(jj, Slice(d, 0, sz))
         IN  /\ c_args' = Append(c_args, [ch |-> jj, dgram |-> d, sz |-> sz,
                                          pkt |-> pkt, res |-> res])
             /\ c_pkt' = pkt
             /\ outside_in' = IF res = "Ok" THEN Append(outside_in, pkt) ELSE outside_in
    /\ arrivals' = arrivals + 1
    /\ UNCHANGED << cfg, pc, state, ret, panic, port_pairs, pp2idx, revents, j, buf,
                    lsocks_in, pipe, hup, handle, cyc, polls_after_signal >>
    /\ UNCHANGED << c_pc, c_res >>

MirrorNext ==
    \/ MirrorForward
    \/ RunStart
    \/ Poll
    \/ PollFail
    \/ ScanSkip
    \/ ScanControl
    \/ ScanLocal
    \/ ScanOutside
    \/ Join
    \/ LocalArrive
    \/ PeerHangUp
    \/ ControlWrite
    \/ ControlClose

MirrorSpec == MirrorInit /\ [][MirrorNext]_vars

(***************************************************************************)
(* C26: with mirrored configurations and pairwise distinct pairs, a        *)
(* datagram that A read from its local channel jj and sent with success is, *)
(* when B receives its packet, followed at B by exactly one send, on B's   *)
(* local channel jj, of the datagram unchanged, and by no diagnostic other *)
(* than that of a send that would block: no decode failure, no address     *)
(* mismatch, no routing miss.  The code violates this: the packet of a     *)
(* datagram longer than 4068 bytes is longer than B's scratch buffer.      *)
(***************************************************************************)
C26_MirroredEnginesInteroperate ==
    \A k \in Recvs : \A e \in 1..Len(c_args) :
        ( /\ c_pc = "mirror"
          /\ cyc[k].ch = n
          /\ c_args[e].res = "Ok"
          /\ cyc[k].data = c_args[e].pkt )
        => /\ SendsOf(k) = {k + 1}
           /\ cyc[k + 1].ch = c_args[e].ch
           /\ cyc[k + 1].data = c_args[e].dgram
           /\ LogsOf(k) \subseteq {"drop", "send failed"}
           /\ LeftRunning(k)

====
